---- MODULE Spec2Model ----
(***************************************************************************)
(* Order / payment state machines and the use cases that drive them.       *)
(*                                                                         *)
(* Collaborators (repository, gateway) are environment inputs: each call   *)
(* of a use case draws the outcome of every collaborator call it may make  *)
(* (found / storage error, gateway success / failure).  A property that    *)
(* speaks of a case names the collaborator outcomes of that case.          *)
(*                                                                         *)
(* The repository is the SQL of its Save / Update and, for the lookups,    *)
(* the entity of the row found (the persistence contract): the lookups of  *)
(* the PostgreSQL repository leave the row-to-entity conversion out.       *)
(***************************************************************************)
EXTENDS Integers, Sequences, FiniteSets, TLC

\* ------------------------------------------------------------------ bounds
MaxPayments == 2
MaxClock == 4
NumTasks == 2
MaxOrders == 2
MaxMembers == 2
MaxGatewayCalls == 3

\* --------------------------------------------------------------- errors
\* An error value is the chain of messages from the outermost wrapper to the
\* innermost cause; the nil error is the empty chain.
Nil == <<>>
ErrPaymentAlreadyExists == <<"payment already exists for this order">>
ErrInvalidPaymentID == <<"invalid payment ID">>
ErrInvalidPaymentAmount == <<"invalid payment amount">>
ErrInvalidOrderID == <<"invalid order ID">>
ErrInvalidPaymentMethod == <<"invalid payment method">>
ErrPaymentNotFound == <<"payment not found">>
ErrRefundNotAllowed == <<"only approved payments can be refunded">>
ErrStorage == <<"storage error">>

\* fmt.Errorf("<ctx>: %w", err)
Wrap(ctx, err) == <<ctx>> \o err
\* err.Error(): the messages joined by ": "
RECURSIVE ErrorString(_)
ErrorString(err) ==
  IF Len(err) = 0 THEN ""
  ELSE IF Len(err) = 1 THEN err[1]
  ELSE err[1] \o ": " \o ErrorString(Tail(err))

\* errors.Is(err, target)
Is(err, target) == \E i \in 1..Len(err) : SubSeq(err, i, Len(err)) = target

\* --------------------------------------------------------- order entity
StatusPending == "pending"
StatusPaid == "paid"
StatusShipped == "shipped"
StatusDelivered == "delivered"
StatusCanceled == "canceled"
OrderStatuses == {StatusPending, StatusPaid, StatusShipped, StatusDelivered, StatusCanceled}

ErrOrderStatusTransition == <<"invalid order status transition">>

ErrOrderNotFound == <<"order not found">>

\* float64: a finite value (the ones used are small integers, on which the
\* arithmetic is exact), an infinity (v is its sign) or NaN
Fin(n) == [k |-> "fin", v |-> n]
PosInf == [k |-> "inf", v |-> 1]
NegInf == [k |-> "inf", v |-> -1]
NaN == [k |-> "nan", v |-> 0]
\* x * float64(q)
FMulInt(x, q) ==
  IF x.k = "nan" THEN NaN
  ELSE IF x.k = "inf"
  THEN IF q = 0 THEN NaN ELSE IF q > 0 THEN x ELSE [k |-> "inf", v |-> 0 - x.v]
  ELSE Fin(x.v * q)
\* x + y
FAdd(x, y) ==
  IF x.k = "nan" \/ y.k = "nan" THEN NaN
  ELSE IF x.k = "inf" /\ y.k = "inf" THEN IF x.v = y.v THEN x ELSE NaN
  ELSE IF x.k = "inf" THEN x
  ELSE IF y.k = "inf" THEN y
  ELSE Fin(x.v + y.v)
\* x <= 0: every comparison with NaN is false
FLeqZero(x) ==
  IF x.k = "nan" THEN FALSE ELSE IF x.k = "inf" THEN x.v < 0 ELSE x.v <= 0

\* The zero value of the struct, &domain.Order{}
ZeroOrder ==
  [id |-> "", customerID |-> "", items |-> <<>>, totalAmount |-> Fin(0), status |-> "",
   createdAt |-> 0, updatedAt |-> 0]

ErrInvalidOrderAmount == <<"invalid order amount">>
ErrInvalidOrderItems == <<"order must have at least one item">>

NewOrderItem(productID, name, price, quantity) ==
  [productID |-> productID, name |-> name, price |-> price, quantity |-> quantity]

\* OrderItem.Subtotal
Subtotal(item) == FMulInt(item.price, item.quantity)

\* totalAmount += item.Subtotal(), item by item from the front
RECURSIVE Accumulate(_, _)
Accumulate(totalAmount, items) ==
  IF items = <<>> THEN totalAmount
  ELSE Accumulate(FAdd(totalAmount, Subtotal(Head(items))), Tail(items))

SumSubtotals(items) == Accumulate(Fin(0), items)

\* NewOrder(customerID, items); uuid and t are what uuid.New() and time.Now() return
NewOrder(uuid, t, customerID, items) ==
  IF Len(items) = 0 THEN [err |-> ErrInvalidOrderItems, o |-> ZeroOrder]
  ELSE IF FLeqZero(SumSubtotals(items))
  THEN [err |-> ErrInvalidOrderAmount, o |-> ZeroOrder]
  ELSE [err |-> Nil,
        o |-> [id |-> uuid, customerID |-> customerID, items |-> items,
               totalAmount |-> SumSubtotals(items), status |-> StatusPending,
               createdAt |-> t, updatedAt |-> t]]

\* A transition rule with a slip: a canceled order may be paid after all
isValidStatusTransitionReopens(from, to) ==
  \/ from \in {StatusPending, StatusCanceled} /\ to \in {StatusPaid, StatusCanceled}
  \/ from = StatusPaid /\ to \in {StatusShipped, StatusCanceled}
  \/ from = StatusShipped /\ to \in {StatusDelivered, StatusCanceled}

\* A transition rule with a slip: a delivered order may still be canceled
isValidStatusTransitionLax(from, to) ==
  \/ from = StatusPending /\ to \in {StatusPaid, StatusCanceled}
  \/ from = StatusPaid /\ to \in {StatusShipped, StatusCanceled}
  \/ from \in {StatusShipped, StatusDelivered} /\ to \in {StatusDelivered, StatusCanceled}

\* isValidStatusTransition: the switch on from
isValidStatusTransition(from, to) ==
  CASE from = StatusPending -> to = StatusPaid \/ to = StatusCanceled
    [] from = StatusPaid -> to = StatusShipped \/ to = StatusCanceled
    [] from = StatusShipped -> to = StatusDelivered \/ to = StatusCanceled
    [] from = StatusDelivered \/ from = StatusCanceled -> FALSE
    [] OTHER -> FALSE

\* Order.UpdateStatus(status); t is the value time.Now() returns if reached
UpdateStatus(o, t, status) ==
  IF ~isValidStatusTransition(o.status, status)
  THEN [err |-> ErrOrderStatusTransition, o |-> o]
  ELSE [err |-> Nil, o |-> [o EXCEPT !.status = status, !.updatedAt = t]]

\* ------------------------------------------------------- payment entity
PaymentStatusPending == "pending"
PaymentStatusApproved == "approved"
PaymentStatusRejected == "rejected"
PaymentStatusRefunded == "refunded"
PaymentStatuses ==
  {PaymentStatusPending, PaymentStatusApproved, PaymentStatusRejected, PaymentStatusRefunded}

PaymentMethodCreditCard == "credit_card"
PaymentMethodBankTransfer == "bank_transfer"

\* map[string]string: a nil map and an empty map are different values
EmptyKV == [k \in {} |-> ""]
NilMap == [isNil |-> TRUE, kv |-> EmptyKV]
MakeMap(kv) == [isNil |-> FALSE, kv |-> kv]

\* The zero value of the struct, &domain.Payment{}
ZeroPayment ==
  [id |-> "", orderID |-> "", amount |-> 0, method |-> "", status |-> "",
   transactionID |-> "", paymentData |-> NilMap, createdAt |-> 0, updatedAt |-> 0]

\* uuid.New().String() for the n-th payment created
PaymentUUID(n) == "pay-" \o ToString(n)

\* NewPayment: validation in the order of the source, then the pending entity
NewPayment(uuid, t, orderID, amount, method, paymentData) ==
  IF orderID = "" THEN [err |-> ErrInvalidOrderID, p |-> ZeroPayment]
  ELSE IF amount <= 0 THEN [err |-> ErrInvalidPaymentAmount, p |-> ZeroPayment]
  ELSE IF method = "" THEN [err |-> ErrInvalidPaymentMethod, p |-> ZeroPayment]
  ELSE [err |-> Nil,
        p |-> [id |-> uuid, orderID |-> orderID, amount |-> amount, method |-> method,
               status |-> PaymentStatusPending, transactionID |-> "",
               paymentData |-> paymentData, createdAt |-> t, updatedAt |-> t]]

SetTransactionID(p, t, transactionID) ==
  [p EXCEPT !.transactionID = transactionID, !.updatedAt = t]

\* An approval that forgets the gateway's transaction identifier
ApproveNoTransactionID(p, t, transactionID) ==
  [p EXCEPT !.status = PaymentStatusApproved, !.updatedAt = t]

\* Approve sets the status without looking at the current one
Approve(p, t, transactionID) ==
  [p EXCEPT !.status = PaymentStatusApproved, !.transactionID = transactionID,
            !.updatedAt = t]

\* A rejection that records a reference of the declined attempt
RejectWithReference(p, t, reason) ==
  IF p.paymentData.isNil
  THEN [panicked |-> TRUE, p |-> [p EXCEPT !.status = PaymentStatusRejected]]
  ELSE [panicked |-> FALSE,
        p |-> [p EXCEPT !.status = PaymentStatusRejected,
                        !.transactionID = "txn_declined",
                        !.paymentData.kv = ("reject_reason" :> reason) @@ @,
                        !.updatedAt = t]]

\* Reject: the status is assigned first, then the map entry; an assignment to
\* an entry of a nil map panics, and the statements after it do not run.
Reject(p, t, reason) ==
  IF p.paymentData.isNil
  THEN [panicked |-> TRUE, p |-> [p EXCEPT !.status = PaymentStatusRejected]]
  ELSE [panicked |-> FALSE,
        p |-> [p EXCEPT !.status = PaymentStatusRejected,
                        !.paymentData.kv = ("reject_reason" :> reason) @@ @,
                        !.updatedAt = t]]

\* The assignments of Refund once the guard has passed: as Reject, the status
\* first, the map entry second
RefundApply(p, t, reason) ==
  IF p.paymentData.isNil
  THEN [err |-> Nil, panicked |-> TRUE,
        p |-> [p EXCEPT !.status = PaymentStatusRefunded]]
  ELSE [err |-> Nil, panicked |-> FALSE,
        p |-> [p EXCEPT !.status = PaymentStatusRefunded,
                        !.paymentData.kv = ("refund_reason" :> reason) @@ @,
                        !.updatedAt = t]]

RefundNoGuard(p, t, reason) == RefundApply(p, t, reason)

\* Refund: guarded by status = approved
Refund(p, t, reason) ==
  IF p.status # PaymentStatusApproved
  THEN [err |-> ErrRefundNotAllowed, panicked |-> FALSE, p |-> p]
  ELSE RefundApply(p, t, reason)

\* --------------------------------------------------- payment repository
\* json.Marshal of the map: a nil map encodes as null, any other as an object
MarshalData(m) == [null |-> m.isNil, obj |-> m.kv]
\* json.Unmarshal into a nil map variable: null leaves it nil
UnmarshalData(j) == IF j.null THEN NilMap ELSE MakeMap(j.obj)

RowOf(p) ==
  [id |-> p.id, order_id |-> p.orderID, amount |-> p.amount, method |-> p.method,
   status |-> p.status, transaction_id |-> p.transactionID,
   payment_data |-> MarshalData(p.paymentData),
   created_at |-> p.createdAt, updated_at |-> p.updatedAt]

\* The entity a row stands for (the contract's findByID(id) -> entity)
EntityOf(r) ==
  [id |-> r.id, orderID |-> r.order_id, amount |-> r.amount, method |-> r.method,
   status |-> r.status, transactionID |-> r.transaction_id,
   paymentData |-> UnmarshalData(r.payment_data),
   createdAt |-> r.created_at, updatedAt |-> r.updated_at]

\* The table is a function from the id column to the row.
\* Save: INSERT of all columns; ok = FALSE is a storage error.
Save(table, p, ok) ==
  IF ok THEN [err |-> Nil, table |-> (p.id :> RowOf(p)) @@ table]
  ELSE [err |-> Wrap("failed to save payment", ErrStorage), table |-> table]

\* An Update that swallows the error of the statement
UpdateSwallowsError(table, p, ok) ==
  IF ~ok \/ p.id \notin DOMAIN table THEN [err |-> Nil, table |-> table]
  ELSE [err |-> Nil,
        table |-> [table EXCEPT ![p.id] =
                     [@ EXCEPT !.status = p.status,
                               !.transaction_id = p.transactionID,
                               !.payment_data = MarshalData(p.paymentData),
                               !.updated_at = p.updatedAt]]]

\* Update: UPDATE of status, transaction_id, payment_data, updated_at WHERE id;
\* a missing id updates no row and is no error.
Update(table, p, ok) ==
  IF ~ok THEN [err |-> Wrap("failed to update payment", ErrStorage), table |-> table]
  ELSE IF p.id \notin DOMAIN table THEN [err |-> Nil, table |-> table]
  ELSE [err |-> Nil,
        table |-> [table EXCEPT ![p.id] =
                     [@ EXCEPT !.status = p.status,
                               !.transaction_id = p.transactionID,
                               !.payment_data = MarshalData(p.paymentData),
                               !.updated_at = p.updatedAt]]]

FindByID(table, id, ok) ==
  IF ~ok THEN [err |-> Wrap("failed to find payment by ID", ErrStorage), found |-> FALSE,
               p |-> ZeroPayment]
  ELSE IF id \notin DOMAIN table THEN [err |-> ErrPaymentNotFound, found |-> FALSE,
                                       p |-> ZeroPayment]
  ELSE [err |-> Nil, found |-> TRUE, p |-> EntityOf(table[id])]

\* QueryRow without ORDER BY: some row of the order; the use case reads only
\* whether there is one.
FindByOrderID(table, orderID, ok) ==
  LET ids == {i \in DOMAIN table : table[i].order_id = orderID} IN
  IF ~ok THEN [err |-> Wrap("failed to find payment by order ID", ErrStorage),
               found |-> FALSE, p |-> ZeroPayment]
  ELSE IF ids = {} THEN [err |-> ErrPaymentNotFound, found |-> FALSE, p |-> ZeroPayment]
  ELSE [err |-> Nil, found |-> TRUE, p |-> EntityOf(table[CHOOSE i \in ids : TRUE])]

\* ------------------------------------------------------ payment gateway
\* PaymentGateway.ProcessPayment: (transactionID, nil) or ("", err)
GatewayOutcomes ==
  {[ok |-> TRUE, txn |-> "txn_abc", err |-> Nil],
   [ok |-> FALSE, txn |-> "", err |-> <<"card declined">>]}
\* PaymentGateway.RefundPayment: nil or err
RefundOutcomes ==
  {[ok |-> TRUE, err |-> Nil], [ok |-> FALSE, err |-> <<"refund declined">>]}

\* ----------------------------------------------------- payment use case
\* What one call of a use case did: the table after it, what it returned
\* (hasRes = FALSE is a nil entity), whether it panicked, and how often it
\* called each collaborator and read the clock.
Outcome(table, hasRes, res, err, panicked, finds, saves, updates, gwProcess, gwRefund, ticks) ==
  [table |-> table, hasRes |-> hasRes, res |-> res, err |-> err, panicked |-> panicked,
   finds |-> finds, saves |-> saves, updates |-> updates,
   gwProcess |-> gwProcess, gwRefund |-> gwRefund, ticks |-> ticks]

\* existingPayment != nil
HasExistingNever(existing) == FALSE

HasExisting(existing) == existing.found

\* payment.Status() != domain.PaymentStatusPending
AlreadyProcessedNever(p) == FALSE

AlreadyProcessed(p) == p.status # PaymentStatusPending

\* CreatePayment(orderID, amount, method, paymentData); uuid and t are the
\* values uuid.New() and time.Now() return if NewPayment reaches them.
CreatePayment(table, uuid, t, orderID, amount, method, paymentData, findOK, saveOK) ==
  LET existing == FindByOrderID(table, orderID, findOK)
      np == NewPayment(uuid, t, orderID, amount, method, paymentData)
      sv == Save(table, np.p, saveOK)
  IN
  IF existing.err # Nil /\ ~Is(existing.err, ErrPaymentNotFound)
  THEN Outcome(table, FALSE, ZeroPayment,
               Wrap("failed to check existing payment", existing.err),
               FALSE, 1, 0, 0, 0, 0, 0)
  ELSE IF HasExisting(existing)
  THEN Outcome(table, FALSE, ZeroPayment, ErrPaymentAlreadyExists, FALSE, 1, 0, 0, 0, 0, 0)
  ELSE IF np.err # Nil
  THEN Outcome(table, FALSE, ZeroPayment, np.err, FALSE, 1, 0, 0, 0, 0, 0)
  ELSE IF sv.err # Nil
  THEN Outcome(table, FALSE, ZeroPayment, Wrap("failed to save payment", sv.err),
               FALSE, 1, 1, 0, 0, 0, 1)
  ELSE Outcome(sv.table, TRUE, np.p, Nil, FALSE, 1, 1, 0, 0, 0, 1)

\* A use case that goes on with whatever the lookup handed back
LookupFailedNever(f) == FALSE

\* payment, err := uc.repo.FindByID(ctx, paymentID); if err != nil
LookupFailed(f) == f.err # Nil

\* ProcessPayment(paymentID); gw is the outcome the gateway gives if called
\* A use case that takes every write after a gateway success for done
WriteFailedNever(upd) == FALSE

\* if err := uc.repo.Update(ctx, payment); err != nil, after the gateway
\* accepted
WriteFailed(upd) == upd.err # Nil

ProcessPayment(table, t, paymentID, findOK, gw, updateOK) ==
  LET f == FindByID(table, paymentID, findOK)
      rejected == Reject(f.p, t, ErrorString(gw.err))
      updRejected == Update(table, rejected.p, updateOK)
      approved == Approve(f.p, t, gw.txn)
      updApproved == Update(table, approved, updateOK)
  IN
  IF paymentID = ""
  THEN Outcome(table, FALSE, ZeroPayment, ErrInvalidPaymentID, FALSE, 0, 0, 0, 0, 0, 0)
  ELSE IF LookupFailed(f)
  THEN Outcome(table, FALSE, ZeroPayment, f.err, FALSE, 1, 0, 0, 0, 0, 0)
  ELSE IF AlreadyProcessed(f.p)
  THEN Outcome(table, TRUE, f.p, Nil, FALSE, 1, 0, 0, 0, 0, 0)
  ELSE IF ~gw.ok
  THEN IF rejected.panicked
       THEN Outcome(table, FALSE, ZeroPayment, Nil, TRUE, 1, 0, 0, 1, 0, 0)
       ELSE IF updRejected.err # Nil
       THEN Outcome(table, FALSE, ZeroPayment,
                    Wrap("failed to update payment status after rejection", updRejected.err),
                    FALSE, 1, 0, 1, 1, 0, 1)
       ELSE Outcome(updRejected.table, TRUE, rejected.p,
                    Wrap("payment processing failed", gw.err), FALSE, 1, 0, 1, 1, 0, 1)
  ELSE IF WriteFailed(updApproved)
  THEN Outcome(table, FALSE, ZeroPayment,
               Wrap("failed to update payment status after approval", updApproved.err),
               FALSE, 1, 0, 1, 1, 0, 1)
  ELSE Outcome(updApproved.table, TRUE, approved, Nil, FALSE, 1, 0, 1, 1, 0, 1)

\* A use case that goes on although the gateway refused the refund
RefundRefusedNever(gw) == FALSE

\* if err := uc.gateway.RefundPayment(...); err != nil
RefundRefused(gw) == gw.err # Nil

\* RefundPayment(id, reason): the gateway is called before the entity's guard
RefundPayment(table, t, id, reason, findOK, gw, updateOK) ==
  LET f == FindByID(table, id, findOK)
      refunded == Refund(f.p, t, reason)
      upd == Update(table, refunded.p, updateOK)
  IN
  IF id = ""
  THEN Outcome(table, FALSE, ZeroPayment, ErrInvalidPaymentID, FALSE, 0, 0, 0, 0, 0, 0)
  ELSE IF f.err # Nil
  THEN Outcome(table, FALSE, ZeroPayment, f.err, FALSE, 1, 0, 0, 0, 0, 0)
  ELSE IF RefundRefused(gw)
  THEN Outcome(table, FALSE, ZeroPayment, Wrap("refund processing failed", gw.err),
               FALSE, 1, 0, 0, 0, 1, 0)
  ELSE IF refunded.err # Nil
  THEN Outcome(table, FALSE, ZeroPayment, refunded.err, FALSE, 1, 0, 0, 0, 1, 0)
  ELSE IF refunded.panicked
  THEN Outcome(table, FALSE, ZeroPayment, Nil, TRUE, 1, 0, 0, 0, 1, 0)
  ELSE IF WriteFailed(upd)
  THEN Outcome(table, FALSE, ZeroPayment,
               Wrap("failed to update payment status after refund", upd.err),
               FALSE, 1, 0, 1, 0, 1, 1)
  ELSE Outcome(upd.table, TRUE, refunded.p, Nil, FALSE, 1, 0, 1, 0, 1, 1)

\* ----------------------------------------------------- order repository
\* uuid.New().String() for the n-th order
OrderUUID(n) == "ord-" \o ToString(n)

\* The row of the orders table with the rows of order_items that carry its id
OrderRowOf(o) ==
  [id |-> o.id, customer_id |-> o.customerID, total_amount |-> o.totalAmount,
   status |-> o.status, created_at |-> o.createdAt, updated_at |-> o.updatedAt,
   order_items |-> o.items]

\* The entity a row stands for (the contract's findByID(id) -> entity)
OrderEntityOf(r) ==
  [id |-> r.id, customerID |-> r.customer_id, items |-> r.order_items,
   totalAmount |-> r.total_amount, status |-> r.status,
   createdAt |-> r.created_at, updatedAt |-> r.updated_at]

\* Save: the INSERTs of one transaction; on an error the deferred Rollback
\* leaves the tables as they were.
OrderSave(table, o, ok) ==
  IF ok THEN [err |-> Nil, table |-> (o.id :> OrderRowOf(o)) @@ table]
  ELSE [err |-> Wrap("failed to save order", ErrStorage), table |-> table]

\* Update: UPDATE orders SET status, updated_at WHERE id
OrderUpdate(table, o, ok) ==
  IF ~ok THEN [err |-> Wrap("failed to update order", ErrStorage), table |-> table]
  ELSE IF o.id \notin DOMAIN table THEN [err |-> Nil, table |-> table]
  ELSE [err |-> Nil,
        table |-> [table EXCEPT ![o.id] =
                     [@ EXCEPT !.status = o.status, !.updated_at = o.updatedAt]]]

OrderFindByID(table, id, ok) ==
  IF ~ok THEN [err |-> Wrap("failed to find order by ID", ErrStorage), found |-> FALSE,
               o |-> ZeroOrder]
  ELSE IF id \notin DOMAIN table THEN [err |-> ErrOrderNotFound, found |-> FALSE,
                                       o |-> ZeroOrder]
  ELSE [err |-> Nil, found |-> TRUE, o |-> OrderEntityOf(table[id])]

\* ------------------------------------------------------- order use case
ErrInvalidCustomerID == <<"invalid customer ID">>

OrderItemRequest(productID, name, price, quantity) ==
  [ProductID |-> productID, Name |-> name, Price |-> price, Quantity |-> quantity]

\* CreateOrder(customerID, itemRequests); uuid and t are the values
\* uuid.New() and time.Now() return if NewOrder reaches them.  The order use
\* case has no gateway and cannot panic: those fields of the Outcome stay 0.
CreateOrder(table, uuid, t, customerID, itemRequests, saveOK) ==
  LET items == [i \in 1..Len(itemRequests) |->
                  NewOrderItem(itemRequests[i].ProductID, itemRequests[i].Name,
                               itemRequests[i].Price, itemRequests[i].Quantity)]
      order == NewOrder(uuid, t, customerID, items)
      sv == OrderSave(table, order.o, saveOK)
  IN
  IF customerID = ""
  THEN Outcome(table, FALSE, ZeroOrder, ErrInvalidCustomerID, FALSE, 0, 0, 0, 0, 0, 0)
  ELSE IF Len(itemRequests) = 0
  THEN Outcome(table, FALSE, ZeroOrder, ErrInvalidOrderItems, FALSE, 0, 0, 0, 0, 0, 0)
  ELSE IF order.err # Nil
  THEN Outcome(table, FALSE, ZeroOrder, order.err, FALSE, 0, 0, 0, 0, 0, 0)
  ELSE IF sv.err # Nil
  THEN Outcome(table, FALSE, ZeroOrder, sv.err, FALSE, 0, 1, 0, 0, 0, 1)
  ELSE Outcome(sv.table, TRUE, order.o, Nil, FALSE, 0, 1, 0, 0, 0, 1)

\* UpdateOrderStatus(id, status)
\* A status update that writes the requested status before it reports what
\* the entity's rule said
UpdateOrderStatusWritesFirst(table, t, id, status, findOK, updateOK) ==
  LET f == OrderFindByID(table, id, findOK)
      updated == UpdateStatus(f.o, t, status)
      forced == [f.o EXCEPT !.status = status, !.updatedAt = t]
      upd == OrderUpdate(table, forced, updateOK)
  IN
  IF f.err # Nil
  THEN Outcome(table, FALSE, ZeroOrder, f.err, FALSE, 1, 0, 0, 0, 0, 0)
  ELSE IF upd.err # Nil
  THEN Outcome(table, FALSE, ZeroOrder, upd.err, FALSE, 1, 0, 1, 0, 0, 1)
  ELSE IF updated.err # Nil
  THEN Outcome(upd.table, FALSE, ZeroOrder, updated.err, FALSE, 1, 0, 1, 0, 0, 1)
  ELSE Outcome(upd.table, TRUE, updated.o, Nil, FALSE, 1, 0, 1, 0, 0, 1)

\* UpdateOrderStatus(id, status)
UpdateOrderStatus(table, t, id, status, findOK, updateOK) ==
  LET f == OrderFindByID(table, id, findOK)
      updated == UpdateStatus(f.o, t, status)
      upd == OrderUpdate(table, updated.o, updateOK)
  IN
  IF f.err # Nil
  THEN Outcome(table, FALSE, ZeroOrder, f.err, FALSE, 1, 0, 0, 0, 0, 0)
  ELSE IF updated.err # Nil
  THEN Outcome(table, FALSE, ZeroOrder, updated.err, FALSE, 1, 0, 0, 0, 0, 0)
  ELSE IF upd.err # Nil
  THEN Outcome(table, FALSE, ZeroOrder, upd.err, FALSE, 1, 0, 1, 0, 0, 1)
  ELSE Outcome(upd.table, TRUE, updated.o, Nil, FALSE, 1, 0, 1, 0, 0, 1)

\* A cancellation that writes the status itself, without the entity's rule
CancelOrderUnguarded(table, t, id, findOK, updateOK) ==
  LET f == OrderFindByID(table, id, findOK)
      canceled == [f.o EXCEPT !.status = StatusCanceled, !.updatedAt = t]
      upd == OrderUpdate(table, canceled, updateOK)
  IN
  IF f.err # Nil
  THEN Outcome(table, FALSE, ZeroOrder, f.err, FALSE, 1, 0, 0, 0, 0, 0)
  ELSE IF upd.err # Nil
  THEN Outcome(table, FALSE, ZeroOrder, upd.err, FALSE, 1, 0, 1, 0, 0, 1)
  ELSE Outcome(upd.table, TRUE, canceled, Nil, FALSE, 1, 0, 1, 0, 0, 1)

\* CancelOrder(id)
CancelOrder(table, t, id, findOK, updateOK) ==
  UpdateOrderStatus(table, t, id, StatusCanceled, findOK, updateOK)

\* -------------------------------------------------------- member entity
ErrInvalidEmail == <<"invalid email address">>
ErrInvalidName == <<"invalid name">>
ErrInvalidPassword == <<"invalid password">>

\* The zero value of the struct, &domain.Member{}
ZeroMember ==
  [id |-> "", email |-> "", name |-> "", password |-> <<>>, createdAt |-> 0,
   updatedAt |-> 0]

\* uuid.New().String() for the n-th member
MemberUUID(n) == "mem-" \o ToString(n)

\* A password is its characters, each given by the number of bytes of its
\* UTF-8 encoding; len(password) counts the bytes of the string.
RECURSIVE ByteLen(_)
ByteLen(password) ==
  IF password = <<>> THEN 0 ELSE Head(password) + ByteLen(Tail(password))

\* NewMember(email, name, password)
NewMember(uuid, t, email, name, password) ==
  IF email = "" THEN [err |-> ErrInvalidEmail, m |-> ZeroMember]
  ELSE IF name = "" THEN [err |-> ErrInvalidName, m |-> ZeroMember]
  ELSE IF ByteLen(password) < 8 THEN [err |-> ErrInvalidPassword, m |-> ZeroMember]
  ELSE [err |-> Nil,
        m |-> [id |-> uuid, email |-> email, name |-> name, password |-> password,
               createdAt |-> t, updatedAt |-> t]]

\* A rename that takes any name
UpdateNameUnchecked(m, t, name) ==
  [err |-> Nil, m |-> [m EXCEPT !.name = name, !.updatedAt = t]]

\* Member.UpdateName(name)
UpdateName(m, t, name) ==
  IF name = "" THEN [err |-> ErrInvalidName, m |-> m]
  ELSE [err |-> Nil, m |-> [m EXCEPT !.name = name, !.updatedAt = t]]

\* -------------------------------------------------- member repositories
\* errors.Is compares the identity of the error variables, not their
\* messages: the use case tests for the variable of the domain package, the
\* PostgreSQL repository returns the one its own package declares.
DomainErrMemberNotFound == <<"member not found [domain.ErrMemberNotFound]">>
InfraErrMemberNotFound == <<"member not found [infrastructure.ErrMemberNotFound]">>

\* A member repository: which implementation it is, the members it holds by
\* id (the members map of the fake, the members table of PostgreSQL) and the
\* fake's second map, email -> id of the member stored under that email.
NewFakeMemberRepository == [repo |-> "fake", members |-> EmptyKV, emails |-> EmptyKV]
NewPostgresMemberRepository ==
  [repo |-> "postgres", members |-> EmptyKV, emails |-> EmptyKV]

Remove(f, k) == [x \in DOMAIN f \ {k} |-> f[x]]

\* FakeMemberRepository: two maps, no failures
FakeSave(store, m) ==
  [err |-> Nil,
   store |-> [store EXCEPT !.members = (m.id :> m) @@ @,
                           !.emails = (m.email :> m.id) @@ @]]

FakeFindByID(store, id) ==
  IF id \in DOMAIN store.members
  THEN [err |-> Nil, found |-> TRUE, m |-> store.members[id]]
  ELSE [err |-> DomainErrMemberNotFound, found |-> FALSE, m |-> ZeroMember]

FakeFindByEmail(store, email) ==
  IF email \in DOMAIN store.emails
  THEN [err |-> Nil, found |-> TRUE, m |-> store.members[store.emails[email]]]
  ELSE [err |-> DomainErrMemberNotFound, found |-> FALSE, m |-> ZeroMember]

FakeUpdate(store, m) ==
  [err |-> Nil, store |-> [store EXCEPT !.members = (m.id :> m) @@ @]]

FakeDelete(store, id) ==
  IF id \notin DOMAIN store.members
  THEN [err |-> DomainErrMemberNotFound, store |-> store]
  ELSE [err |-> Nil,
        store |-> [store EXCEPT !.members = Remove(@, id),
                                !.emails = Remove(@, store.members[id].email)]]

\* PostgresMemberRepository: INSERT INTO members
PostgresMemberSave(store, m, ok) ==
  IF ok THEN [err |-> Nil, store |-> [store EXCEPT !.members = (m.id :> m) @@ @]]
  ELSE [err |-> Wrap("failed to save member", ErrStorage), store |-> store]

\* SELECT ... WHERE id; a row found stands for the member it was saved from
PostgresMemberFindByID(store, id, ok) ==
  IF ~ok THEN [err |-> Wrap("failed to find member by ID", ErrStorage),
               found |-> FALSE, m |-> ZeroMember]
  ELSE IF id \notin DOMAIN store.members
  THEN [err |-> InfraErrMemberNotFound, found |-> FALSE, m |-> ZeroMember]
  ELSE [err |-> Nil, found |-> TRUE, m |-> store.members[id]]

\* SELECT ... WHERE email
PostgresMemberFindByEmail(store, email, ok) ==
  LET ids == {i \in DOMAIN store.members : store.members[i].email = email} IN
  IF ~ok THEN [err |-> Wrap("failed to find member by email", ErrStorage),
               found |-> FALSE, m |-> ZeroMember]
  ELSE IF ids = {}
  THEN [err |-> InfraErrMemberNotFound, found |-> FALSE, m |-> ZeroMember]
  ELSE [err |-> Nil, found |-> TRUE, m |-> store.members[CHOOSE i \in ids : TRUE]]

\* UPDATE members SET name, updated_at WHERE id
PostgresMemberUpdate(store, m, ok) ==
  IF ~ok THEN [err |-> Wrap("failed to update member", ErrStorage), store |-> store]
  ELSE IF m.id \notin DOMAIN store.members THEN [err |-> Nil, store |-> store]
  ELSE [err |-> Nil,
        store |-> [store EXCEPT !.members[m.id] =
                     [@ EXCEPT !.name = m.name, !.updatedAt = m.updatedAt]]]

\* DELETE FROM members WHERE id; a missing row is no error
PostgresMemberDelete(store, id, ok) ==
  IF ~ok THEN [err |-> Wrap("failed to delete member", ErrStorage), store |-> store]
  ELSE [err |-> Nil, store |-> [store EXCEPT !.members = Remove(@, id)]]

\* The MemberRepository the use case holds
MemberSave(store, m, ok) ==
  IF store.repo = "fake" THEN FakeSave(store, m) ELSE PostgresMemberSave(store, m, ok)

MemberFindByID(store, id, ok) ==
  IF store.repo = "fake" THEN FakeFindByID(store, id)
  ELSE PostgresMemberFindByID(store, id, ok)

MemberFindByEmail(store, email, ok) ==
  IF store.repo = "fake" THEN FakeFindByEmail(store, email)
  ELSE PostgresMemberFindByEmail(store, email, ok)

MemberUpdate(store, m, ok) ==
  IF store.repo = "fake" THEN FakeUpdate(store, m) ELSE PostgresMemberUpdate(store, m, ok)

MemberDelete(store, id, ok) ==
  IF store.repo = "fake" THEN FakeDelete(store, id) ELSE PostgresMemberDelete(store, id, ok)

\* ------------------------------------------------------ member use case
ErrMemberAlreadyExists == <<"member already exists with this email">>

\* The duplicate check left out
MemberExistsNever(existing) == FALSE

\* existingMember != nil
MemberExists(existing) == existing.found

\* CreateMember(email, name, password).  The member use case has no gateway
\* and cannot panic: those fields of the Outcome stay 0.
CreateMember(store, uuid, t, email, name, password, findOK, saveOK) ==
  LET existing == MemberFindByEmail(store, email, findOK)
      member == NewMember(uuid, t, email, name, password)
      sv == MemberSave(store, member.m, saveOK)
  IN
  IF existing.err # Nil /\ ~Is(existing.err, DomainErrMemberNotFound)
  THEN Outcome(store, FALSE, ZeroMember, existing.err, FALSE, 1, 0, 0, 0, 0, 0)
  ELSE IF MemberExists(existing)
  THEN Outcome(store, FALSE, ZeroMember, ErrMemberAlreadyExists, FALSE, 1, 0, 0, 0, 0, 0)
  ELSE IF member.err # Nil
  THEN Outcome(store, FALSE, ZeroMember, member.err, FALSE, 1, 0, 0, 0, 0, 0)
  ELSE IF sv.err # Nil
  THEN Outcome(store, FALSE, ZeroMember, sv.err, FALSE, 1, 1, 0, 0, 0, 1)
  ELSE Outcome(sv.store, TRUE, member.m, Nil, FALSE, 1, 1, 0, 0, 0, 1)

\* UpdateMember(id, name)
UpdateMember(store, t, id, name, findOK, updateOK) ==
  LET f == MemberFindByID(store, id, findOK)
      renamed == UpdateName(f.m, t, name)
      upd == MemberUpdate(store, renamed.m, updateOK)
  IN
  IF f.err # Nil
  THEN Outcome(store, FALSE, ZeroMember, f.err, FALSE, 1, 0, 0, 0, 0, 0)
  ELSE IF renamed.err # Nil
  THEN Outcome(store, FALSE, ZeroMember, renamed.err, FALSE, 1, 0, 0, 0, 0, 0)
  ELSE IF upd.err # Nil
  THEN Outcome(store, FALSE, ZeroMember, upd.err, FALSE, 1, 0, 1, 0, 0, 1)
  ELSE Outcome(upd.store, TRUE, renamed.m, Nil, FALSE, 1, 0, 1, 0, 0, 1)

\* DeleteMember(id): the repository's Delete and nothing else (counted with
\* the updates)
DeleteMember(store, id, deleteOK) ==
  LET d == MemberDelete(store, id, deleteOK) IN
  Outcome(d.store, FALSE, ZeroMember, d.err, FALSE, 0, 0, 1, 0, 0, 0)

\* ------------------------------------------------------------- inputs
Emails == {"", "ann@example.com", "bob@example.com"}
Names == {"", "Ann", "Bob"}
\* seven and eight ASCII characters, three 3-byte characters
Passwords == {<<1, 1, 1, 1, 1, 1, 1>>, <<1, 1, 1, 1, 1, 1, 1, 1>>, <<3, 3, 3>>}
MemberIDs == {MemberUUID(n) : n \in 1..3}
OrderRefs == {"", "order-1", "order-2"}
Amounts == {-1, 0, 100}
Methods == {"", PaymentMethodCreditCard}
PaymentDatas == {NilMap, MakeMap("card" :> "visa")}
Reasons == {"customer request"}
PaymentRefs == {""} \cup {PaymentUUID(n) : n \in 1..(MaxPayments + 1)}

CustomerIDs == {"", "cust-1"}
\* Item lists: none, totals of 100, 40, 0, -5 and 20 (a negative item among
\* positive ones), and prices that are not finite
ItemRequestLists ==
  {<<>>,
   <<OrderItemRequest("prod-1", "book", Fin(50), 2)>>,
   <<OrderItemRequest("prod-1", "book", Fin(30), 1),
     OrderItemRequest("prod-2", "pen", Fin(5), 2)>>,
   <<OrderItemRequest("prod-1", "book", Fin(0), 1)>>,
   <<OrderItemRequest("prod-1", "book", Fin(5), -1)>>,
   <<OrderItemRequest("prod-1", "book", Fin(30), 1),
     OrderItemRequest("prod-3", "coupon", Fin(-10), 1)>>,
   <<OrderItemRequest("prod-1", "book", NaN, 1)>>,
   <<OrderItemRequest("prod-1", "book", PosInf, 1)>>,
   <<OrderItemRequest("prod-1", "book", PosInf, 1),
     OrderItemRequest("prod-3", "coupon", NegInf, 1)>>}
OrderIDs == {OrderUUID(n) : n \in 1..(MaxOrders + 1)}

\* -------------------------------------------------------------- state
VARIABLES
  payments,   \* the payments table: id -> row
  orders,     \* the orders table (with its order_items): id -> row
  members,    \* the member repository the use case was built with, and what it holds
  created,    \* number of payment (or member) ids handed out by uuid.New()
  now,        \* the clock: the last value time.Now() returned
  last,       \* the last use-case call: its arguments and its Outcome
  ent,        \* entities driven directly through their methods, and the last method call
  tasks,      \* concurrent use-case calls in flight: task -> its position and locals
  gwCalls     \* payment id -> number of gateway ProcessPayment invocations by tasks

vars == <<payments, orders, members, created, now, last, ent, tasks, gwCalls>>

NoCall ==
  [op |-> "none", id |-> "", orderID |-> "", amount |-> 0, method |-> "",
   paymentData |-> NilMap, reason |-> "", customerID |-> "", itemRequests |-> <<>>,
   status |-> "", t |-> 0, findOK |-> TRUE, writeOK |-> TRUE,
   gwOK |-> TRUE, pre |-> EmptyKV,
   out |-> Outcome(EmptyKV, FALSE, ZeroPayment, Nil, FALSE, 0, 0, 0, 0, 0, 0)]

\* No entity method has been called
NoEnt ==
  [order |-> ZeroOrder, payment |-> ZeroPayment, method |-> "none", arg |-> "",
   orderBefore |-> ZeroOrder, paymentBefore |-> ZeroPayment, err |-> Nil,
   panicked |-> FALSE]

Tasks == 1..NumTasks
IdleTask ==
  [pc |-> "idle", op |-> "none", id |-> "", p |-> ZeroPayment, sawPending |-> FALSE,
   gwErr |-> Nil, hasRes |-> FALSE, res |-> ZeroPayment, err |-> Nil, panicked |-> FALSE]

Init ==
  /\ payments = EmptyKV
  /\ orders = EmptyKV
  /\ members = NewPostgresMemberRepository
  /\ created = 0
  /\ now = 0
  /\ last = NoCall
  /\ ent = NoEnt
  /\ tasks = [t \in Tasks |-> IdleTask]
  /\ gwCalls = EmptyKV

\* The outcome drawn for a collaborator counts only if the call reached that
\* collaborator: an outcome nobody asked for is fixed to success, so that one
\* call is one transition.
Relevant(out, findOK, writeOK, gwOK) ==
  /\ out.finds = 0 => findOK
  /\ out.saves + out.updates = 0 => writeOK
  /\ out.gwProcess + out.gwRefund = 0 => gwOK

\* The effect of a finished call on the state
Finish(call, out) ==
  /\ payments' = out.table
  /\ now' = now + out.ticks
  /\ last' = [call EXCEPT !.pre = payments, !.out = out]
  /\ UNCHANGED <<orders, members, ent, tasks, gwCalls>>

DoCreatePayment ==
  \E orderID \in OrderRefs, amount \in Amounts, method \in Methods,
     paymentData \in PaymentDatas, findOK \in BOOLEAN, saveOK \in BOOLEAN :
    \E out \in {CreatePayment(payments, PaymentUUID(created + 1), now + 1, orderID, amount,
                             method, paymentData, findOK, saveOK)} :
       /\ out.ticks > 0 => created < MaxPayments
       /\ now < MaxClock
       /\ Relevant(out, findOK, saveOK, TRUE)
       /\ created' = IF out.ticks > 0 THEN created + 1 ELSE created
       /\ Finish([NoCall EXCEPT !.op = "CreatePayment", !.orderID = orderID,
                                !.amount = amount, !.method = method,
                                !.paymentData = paymentData, !.findOK = findOK,
                                !.writeOK = saveOK], out)

DoProcessPayment ==
  \E id \in PaymentRefs, findOK \in BOOLEAN, gw \in GatewayOutcomes, updateOK \in BOOLEAN :
    \E out \in {ProcessPayment(payments, now + 1, id, findOK, gw, updateOK)} :
       /\ now < MaxClock
       /\ Relevant(out, findOK, updateOK, gw.ok)
       /\ UNCHANGED created
       /\ Finish([NoCall EXCEPT !.op = "ProcessPayment", !.id = id, !.findOK = findOK,
                                !.writeOK = updateOK, !.gwOK = gw.ok], out)

DoRefundPayment ==
  \E id \in PaymentRefs, reason \in Reasons, findOK \in BOOLEAN, gw \in RefundOutcomes,
     updateOK \in BOOLEAN :
    \E out \in {RefundPayment(payments, now + 1, id, reason, findOK, gw, updateOK)} :
       /\ now < MaxClock
       /\ Relevant(out, findOK, updateOK, gw.ok)
       /\ UNCHANGED created
       /\ Finish([NoCall EXCEPT !.op = "RefundPayment", !.id = id, !.reason = reason,
                                !.findOK = findOK, !.writeOK = updateOK, !.gwOK = gw.ok], out)

Next == DoCreatePayment \/ DoProcessPayment \/ DoRefundPayment

Spec == Init /\ [][Next]_vars

\* ------------------------------------------- entities driven directly
\* The entity methods are exported: a caller holding an entity may call any
\* of them in any state.  ent.order / ent.payment start as constructed (an
\* order may also be the zero value a repository hands out) and every method
\* may be called with every argument.
RequestedStatuses == OrderStatuses \cup {"", "refunded"}

InitEntity ==
  /\ payments = EmptyKV
  /\ orders = EmptyKV
  /\ members = NewPostgresMemberRepository
  /\ created = 0
  /\ now = 0
  /\ last = NoCall
  /\ tasks = [t \in Tasks |-> IdleTask]
  /\ gwCalls = EmptyKV
  /\ \E o \in {ZeroOrder,
               NewOrder("ord-1", 0, "cust-1", <<NewOrderItem("prod-1", "book", Fin(50), 2)>>).o},
        data \in PaymentDatas :
       ent = [NoEnt EXCEPT
                !.order = o, !.orderBefore = o,
                !.payment = NewPayment(PaymentUUID(1), 0, "order-1", 100,
                                       PaymentMethodCreditCard, data).p,
                !.paymentBefore = NewPayment(PaymentUUID(1), 0, "order-1", 100,
                                             PaymentMethodCreditCard, data).p]

\* One method call on the entities: the entities after it and what it returned
EntCall(method, arg, o, p, err, panicked) ==
  /\ now < MaxClock
  /\ ent' = [order |-> o, payment |-> p, method |-> method, arg |-> arg,
             orderBefore |-> ent.order, paymentBefore |-> ent.payment, err |-> err,
             panicked |-> panicked]
  /\ now' = IF o.updatedAt # ent.order.updatedAt \/ p.updatedAt # ent.payment.updatedAt
            THEN now + 1 ELSE now
  /\ UNCHANGED <<payments, orders, members, created, last, tasks, gwCalls>>

EntUpdateStatus ==
  \E status \in RequestedStatuses :
    \E r \in {UpdateStatus(ent.order, now + 1, status)} :
      EntCall("UpdateStatus", status, r.o, ent.payment, r.err, FALSE)

EntSetTransactionID ==
  EntCall("SetTransactionID", "txn_abc", ent.order,
          SetTransactionID(ent.payment, now + 1, "txn_abc"), Nil, FALSE)

EntApprove ==
  EntCall("Approve", "txn_abc", ent.order, Approve(ent.payment, now + 1, "txn_abc"),
          Nil, FALSE)

EntReject ==
  \E r \in {Reject(ent.payment, now + 1, "card declined")} :
    EntCall("Reject", "card declined", ent.order, r.p, Nil, r.panicked)

EntRefund ==
  \E reason \in Reasons :
    \E r \in {Refund(ent.payment, now + 1, reason)} :
      EntCall("Refund", reason, ent.order, r.p, r.err, r.panicked)

NextEntity == EntUpdateStatus \/ EntSetTransactionID \/ EntApprove \/ EntReject \/ EntRefund

SpecEntity == InitEntity /\ [][NextEntity]_vars

\* ------------------------------------------------- properties: entities
\* The legal moves of the payment status
LegalPaymentMoves ==
  {<<PaymentStatusPending, PaymentStatusApproved>>,
   <<PaymentStatusPending, PaymentStatusRejected>>,
   <<PaymentStatusApproved, PaymentStatusRefunded>>}

\* The transition table of the order status
TransitionTable ==
  {<<StatusPending, StatusPaid>>, <<StatusPending, StatusCanceled>>,
   <<StatusPaid, StatusShipped>>, <<StatusPaid, StatusCanceled>>,
   <<StatusShipped, StatusDelivered>>, <<StatusShipped, StatusCanceled>>}

\* C1: Order.UpdateStatus(to) on an order in status from succeeds iff
\* (from, to) is in the transition table, and then sets the status and
\* refreshes the updated-time; otherwise it returns the
\* invalid-status-transition error and leaves the order as it was.
C1_UpdateStatusIffInTable ==
  ent.method = "UpdateStatus" =>
    /\ (ent.err = Nil) <=> (<<ent.orderBefore.status, ent.arg>> \in TransitionTable)
    /\ ent.err = Nil =>
         /\ ent.order.status = ent.arg
         /\ ent.order.updatedAt > ent.orderBefore.updatedAt
    /\ ent.err # Nil =>
         /\ ent.err = ErrOrderStatusTransition
         /\ ent.order.status = ent.orderBefore.status
         /\ ent.order.updatedAt = ent.orderBefore.updatedAt

\* A delivered order was asked to become canceled and stayed delivered
C1_Witness ==
  /\ ent.method = "UpdateStatus"
  /\ ent.orderBefore.status = StatusDelivered /\ ent.arg = StatusCanceled
  /\ ent.err = ErrOrderStatusTransition
  /\ ent.order = ent.orderBefore

\* C9: Approve and Reject change the status only of a pending payment, Refund
\* only of an approved one, and no method moves a payment along a pair other
\* than pending->approved, pending->rejected, approved->refunded.
C9_EntityEnforcesTransitions ==
  ent.payment.status # ent.paymentBefore.status =>
    /\ ent.method \in {"Approve", "Reject"} =>
         ent.paymentBefore.status = PaymentStatusPending
    /\ ent.method = "Refund" => ent.paymentBefore.status = PaymentStatusApproved
    /\ <<ent.paymentBefore.status, ent.payment.status>> \in LegalPaymentMoves

\* ------------------------------------------------- properties: payments
Writes(out) == out.saves + out.updates
Called(op) == last.op = op
\* The row the call found under its identifier, before the call
PreRow == last.pre[last.id]
FoundByID == last.findOK /\ last.id \in DOMAIN last.pre

\* The last call was a ProcessPayment that settled a pending payment: it
\* returned the approved or rejected entity after a successful write.
Settled ==
  /\ Called("ProcessPayment") /\ FoundByID
  /\ PreRow.status = PaymentStatusPending
  /\ last.out.hasRes /\ last.out.updates = 1
  /\ last.out.res.status \in {PaymentStatusApproved, PaymentStatusRejected}

C3_RefundNotApprovedTouchesNothing ==
  (Called("RefundPayment") /\ FoundByID /\ PreRow.status # PaymentStatusApproved)
    => /\ last.out.err # Nil
       /\ ~last.out.hasRes
       /\ last.out.gwRefund = 0
       /\ Writes(last.out) = 0

\* C4: CreatePayment with an empty order reference, an amount <= 0 or an
\* empty method fails with the error of the first failing check, whatever
\* the table holds, before any call of the repository (lookup or Save).
C4_ValidationBeforePersistence ==
  (Called("CreatePayment")
     /\ (last.orderID = "" \/ last.amount <= 0 \/ last.method = ""))
    => /\ last.out.err =
            (IF last.orderID = "" THEN ErrInvalidOrderID
             ELSE IF last.amount <= 0 THEN ErrInvalidPaymentAmount
             ELSE ErrInvalidPaymentMethod)
       /\ last.out.finds = 0
       /\ Writes(last.out) = 0

C6_DuplicateRejected ==
  (Called("CreatePayment") /\ last.findOK
     /\ \E i \in DOMAIN last.pre : last.pre[i].order_id = last.orderID)
    => /\ last.out.err = ErrPaymentAlreadyExists
       /\ ~last.out.hasRes
       /\ last.out.saves = 0
       /\ payments = last.pre

\* A CreatePayment with otherwise valid arguments hit an existing payment
C6_Witness ==
  /\ Called("CreatePayment") /\ last.findOK
  /\ last.amount > 0 /\ last.method # ""
  /\ \E i \in DOMAIN last.pre : last.pre[i].order_id = last.orderID

\* C7: the table never holds two payments of one order reference.
C7_OnePaymentPerOrder ==
  \A i, j \in DOMAIN payments : payments[i].order_id = payments[j].order_id => i = j

\* Two payments are stored and a further CreatePayment has been turned down
C7_Witness ==
  /\ Cardinality(DOMAIN payments) = 2
  /\ Called("CreatePayment") /\ last.out.err = ErrPaymentAlreadyExists

FoundIn(op, status) == Called(op) /\ FoundByID /\ PreRow.status = status
\* The columns of a row that Update never writes
Fixed(r) == <<r.id, r.order_id, r.amount, r.method, r.created_at>>

SetTask(t, rec) == tasks' = [tasks EXCEPT ![t] = rec]
Done(t, hasRes, res, err, panicked) ==
  SetTask(t, [tasks[t] EXCEPT !.pc = "done", !.hasRes = hasRes, !.res = res,
                              !.err = err, !.panicked = panicked])

\* A payment enters the table (one whole CreatePayment call)
ConcCreatePayment ==
  \E orderID \in OrderRefs \ {""}, paymentData \in PaymentDatas :
    \E out \in {CreatePayment(payments, PaymentUUID(created + 1), now + 1, orderID, 100,
                              PaymentMethodCreditCard, paymentData, TRUE, TRUE)} :
       /\ created < MaxPayments
       /\ \A t \in Tasks : tasks[t].pc = "idle"
       /\ payments' = out.table
       /\ now' = now + out.ticks
       /\ created' = created + out.ticks
       /\ UNCHANGED <<orders, members, last, ent, tasks, gwCalls>>

\* ProcessPayment is called: the check of the identifier
ProcStart(t) ==
  \E id \in PaymentRefs :
    /\ tasks[t].pc = "idle"
    /\ IF id = ""
       THEN Done(t, FALSE, ZeroPayment, ErrInvalidPaymentID, FALSE)
       ELSE SetTask(t, [tasks[t] EXCEPT !.pc = "find", !.op = "ProcessPayment", !.id = id])
    /\ UNCHANGED <<payments, orders, members, created, now, last, ent, gwCalls>>

\* uc.repo.FindByID and the check of the status read
ProcFind(t) ==
  \E findOK \in BOOLEAN :
    \E f \in {FindByID(payments, tasks[t].id, findOK)} :
      /\ tasks[t].pc = "find"
      /\ IF f.err # Nil THEN Done(t, FALSE, ZeroPayment, f.err, FALSE)
         ELSE IF AlreadyProcessed(f.p) THEN Done(t, TRUE, f.p, Nil, FALSE)
         ELSE SetTask(t, [tasks[t] EXCEPT !.pc = "gateway", !.p = f.p,
                                          !.sawPending = f.p.status = PaymentStatusPending])
      /\ UNCHANGED <<payments, orders, members, created, now, last, ent, gwCalls>>

\* uc.gateway.ProcessPayment and the entity's Reject or Approve
ProcGateway(t) ==
  \E gw \in GatewayOutcomes :
    \E rejected \in {Reject(tasks[t].p, now + 1, ErrorString(gw.err))} :
      /\ tasks[t].pc = "gateway"
      /\ gwCalls' = (tasks[t].id :> (IF tasks[t].id \in DOMAIN gwCalls
                                      THEN gwCalls[tasks[t].id] + 1 ELSE 1)) @@ gwCalls
      /\ IF ~gw.ok
         THEN IF rejected.panicked
              THEN /\ Done(t, FALSE, ZeroPayment, Nil, TRUE)
                   /\ UNCHANGED now
              ELSE /\ SetTask(t, [tasks[t] EXCEPT !.pc = "update", !.p = rejected.p,
                                                  !.gwErr = gw.err])
                   /\ now' = now + 1
         ELSE /\ SetTask(t, [tasks[t] EXCEPT !.pc = "update",
                                             !.p = Approve(tasks[t].p, now + 1, gw.txn)])
              /\ now' = now + 1
      /\ UNCHANGED <<payments, orders, members, created, last, ent>>

\* uc.repo.Update and the return
ProcUpdate(t) ==
  \E updateOK \in BOOLEAN :
    \E u \in {Update(payments, tasks[t].p, updateOK)} :
      /\ tasks[t].pc = "update"
      /\ payments' = u.table
      /\ IF u.err # Nil
         THEN Done(t, FALSE, ZeroPayment,
                   Wrap(IF tasks[t].gwErr # Nil
                        THEN "failed to update payment status after rejection"
                        ELSE "failed to update payment status after approval", u.err), FALSE)
         ELSE IF tasks[t].gwErr # Nil
         THEN Done(t, TRUE, tasks[t].p, Wrap("payment processing failed", tasks[t].gwErr),
                   FALSE)
         ELSE Done(t, TRUE, tasks[t].p, Nil, FALSE)
      /\ UNCHANGED <<orders, members, created, now, last, ent, gwCalls>>

NextConc ==
  \/ ConcCreatePayment
  \/ \E t \in Tasks : ProcStart(t) \/ ProcFind(t) \/ ProcGateway(t) \/ ProcUpdate(t)

SpecConc == Init /\ [][NextConc]_vars

\* --------------------------------------------- properties: concurrency
\* The tasks that read the payment as pending / that have passed the gateway
SawPending(id) == {t \in Tasks : tasks[t].id = id /\ tasks[t].sawPending}
PastGateway(id) ==
  {t \in Tasks : tasks[t].id = id /\ tasks[t].op = "ProcessPayment"
                 /\ \/ tasks[t].pc = "update"
                    \/ tasks[t].pc = "done" /\ (tasks[t].sawPending \/ tasks[t].panicked)}
GatewayCalls(id) == IF id \in DOMAIN gwCalls THEN gwCalls[id] ELSE 0

FinishOrder(call, out) ==
  /\ now + out.ticks <= MaxClock
  /\ orders' = out.table
  /\ now' = now + out.ticks
  /\ last' = [call EXCEPT !.t = now + 1, !.pre = orders, !.out = out]
  /\ UNCHANGED <<payments, members, created, ent, tasks, gwCalls>>

DoCreateOrder ==
  \E customerID \in CustomerIDs, itemRequests \in ItemRequestLists, saveOK \in BOOLEAN :
    \E out \in {CreateOrder(orders, OrderUUID(Cardinality(DOMAIN orders) + 1), now + 1,
                            customerID, itemRequests, saveOK)} :
       /\ out.hasRes => Cardinality(DOMAIN orders) < MaxOrders
       /\ Relevant(out, TRUE, saveOK, TRUE)
       /\ FinishOrder([NoCall EXCEPT !.op = "CreateOrder", !.customerID = customerID,
                                     !.itemRequests = itemRequests, !.writeOK = saveOK], out)

DoUpdateOrderStatus ==
  \E id \in OrderIDs, status \in RequestedStatuses, findOK \in BOOLEAN,
     updateOK \in BOOLEAN :
    \E out \in {UpdateOrderStatus(orders, now + 1, id, status, findOK, updateOK)} :
       /\ Relevant(out, findOK, updateOK, TRUE)
       /\ FinishOrder([NoCall EXCEPT !.op = "UpdateOrderStatus", !.id = id,
                                     !.status = status, !.findOK = findOK,
                                     !.writeOK = updateOK], out)

DoCancelOrder ==
  \E id \in OrderIDs, findOK \in BOOLEAN, updateOK \in BOOLEAN :
    \E out \in {CancelOrder(orders, now + 1, id, findOK, updateOK)} :
       /\ Relevant(out, findOK, updateOK, TRUE)
       /\ FinishOrder([NoCall EXCEPT !.op = "CancelOrder", !.id = id, !.findOK = findOK,
                                     !.writeOK = updateOK], out)

\* CreateOrder with every input, and nothing else
SpecCreateOrder == Init /\ [][DoCreateOrder]_vars

\* An order is placed: one CreateOrder call that goes through
PlaceOrder ==
  \E out \in {CreateOrder(orders, OrderUUID(Cardinality(DOMAIN orders) + 1), now + 1,
                          "cust-1", <<OrderItemRequest("prod-1", "book", Fin(50), 2)>>,
                          TRUE)} :
     /\ Cardinality(DOMAIN orders) < MaxOrders
     /\ FinishOrder([NoCall EXCEPT !.op = "CreateOrder", !.customerID = "cust-1",
                                   !.itemRequests =
                                      <<OrderItemRequest("prod-1", "book", Fin(50), 2)>>],
                     out)

\* Orders are placed and moved through their statuses
NextOrder == PlaceOrder \/ DoUpdateOrderStatus \/ DoCancelOrder

SpecOrder == Init /\ [][NextOrder]_vars

\* --------------------------------------------------- properties: orders
\* x > 0 and x == y on float64: false whenever NaN is involved
FGtZero(x) == IF x.k = "nan" THEN FALSE ELSE x.v > 0
FEq(x, y) == x.k # "nan" /\ y.k # "nan" /\ x = y
\* The sum of price x quantity over the requested items
RequestedTotal(itemRequests) ==
  SumSubtotals([i \in 1..Len(itemRequests) |->
                  [price |-> itemRequests[i].Price, quantity |-> itemRequests[i].Quantity]])

C18_CreateOrderValidates ==
  Called("CreateOrder") =>
    /\ last.writeOK =>
         ((last.out.err = Nil) <=>
            /\ last.customerID # ""
            /\ Len(last.itemRequests) > 0
            /\ FGtZero(RequestedTotal(last.itemRequests)))
    /\ last.out.err = Nil =>
         /\ last.out.hasRes /\ last.out.saves = 1
         /\ DOMAIN orders = DOMAIN last.pre \cup {last.out.res.id}
         /\ last.out.res.id \notin DOMAIN last.pre
         /\ orders[last.out.res.id].status = StatusPending
         /\ FEq(orders[last.out.res.id].total_amount, RequestedTotal(last.itemRequests))
    /\ (last.customerID # "" /\ Len(last.itemRequests) = 0)
         => last.out.err = ErrInvalidOrderItems
    /\ last.out.err # Nil => (~last.out.hasRes /\ orders = last.pre)

\* ------------------------------------- orders and payments side by side
\* The service runs both use cases over their own tables.  Requests are
\* well-formed, lookups and writes succeed; the gateway may decline a payment.
\* A payment is created for an order reference, whether or not such an order
\* is stored.
ShopCall(call, out) ==
  /\ now + out.ticks <= MaxClock
  /\ Finish(call, out)

ShopUpdateOrderStatus ==
  \E id \in OrderIDs, status \in {StatusPaid, StatusCanceled} :
    \E out \in {UpdateOrderStatus(orders, now + 1, id, status, TRUE, TRUE)} :
       FinishOrder([NoCall EXCEPT !.op = "UpdateOrderStatus", !.id = id,
                                  !.status = status], out)

ShopCreatePayment ==
  \E orderID \in OrderIDs :
    \E out \in {CreatePayment(payments, PaymentUUID(created + 1), now + 1, orderID, 100,
                              PaymentMethodCreditCard, MakeMap("card" :> "visa"),
                              TRUE, TRUE)} :
       /\ out.ticks > 0 => created < MaxPayments
       /\ created' = IF out.ticks > 0 THEN created + 1 ELSE created
       /\ ShopCall([NoCall EXCEPT !.op = "CreatePayment", !.orderID = orderID,
                                  !.amount = 100, !.method = PaymentMethodCreditCard,
                                  !.paymentData = MakeMap("card" :> "visa")], out)

\* A ProcessPayment that marks the order of an approved payment as paid
ShopProcessPaymentPaysOrder ==
  \E id \in PaymentRefs \ {""}, gw \in GatewayOutcomes :
    \E out \in {ProcessPayment(payments, now + 1, id, TRUE, gw, TRUE)} :
       /\ now + out.ticks <= MaxClock
       /\ Relevant(out, TRUE, TRUE, gw.ok)
       /\ payments' = out.table
       /\ now' = now + out.ticks
       /\ last' = [NoCall EXCEPT !.op = "ProcessPayment", !.id = id, !.gwOK = gw.ok,
                                 !.pre = payments, !.out = out]
       /\ orders' = IF out.hasRes /\ out.res.status = PaymentStatusApproved
                       /\ out.res.orderID \in DOMAIN orders
                    THEN [orders EXCEPT ![out.res.orderID].status = StatusPaid]
                    ELSE orders
       /\ UNCHANGED <<members, created, ent, tasks, gwCalls>>

ShopProcessPayment ==
  \E id \in PaymentRefs \ {""}, gw \in GatewayOutcomes :
    \E out \in {ProcessPayment(payments, now + 1, id, TRUE, gw, TRUE)} :
       /\ Relevant(out, TRUE, TRUE, gw.ok)
       /\ UNCHANGED created
       /\ ShopCall([NoCall EXCEPT !.op = "ProcessPayment", !.id = id, !.gwOK = gw.ok], out)

ShopRefundPayment ==
  \E id \in PaymentRefs \ {""}, reason \in Reasons :
    \E out \in {RefundPayment(payments, now + 1, id, reason, TRUE,
                              [ok |-> TRUE, err |-> Nil], TRUE)} :
       /\ UNCHANGED created
       /\ ShopCall([NoCall EXCEPT !.op = "RefundPayment", !.id = id, !.reason = reason],
                   out)

NextShop ==
  \/ PlaceOrder
  \/ ShopUpdateOrderStatus
  \/ ShopCreatePayment
  \/ ShopProcessPayment
  \/ ShopRefundPayment

SpecShop == Init /\ [][NextShop]_vars

\* ------------------------------------- properties: orders and payments
PaymentCalls == {"CreatePayment", "ProcessPayment", "RefundPayment"}

AbsentID == last.id # "" /\ last.findOK /\ last.id \notin DOMAIN last.pre

\* C20: ProcessPayment, RefundPayment and UpdateOrderStatus on an identifier
\* the table does not hold return the not-found error of their entity, which
\* is not a storage error, and no entity, call no gateway and write nothing.
C20_AbsentIsNotFound ==
  /\ ((Called("ProcessPayment") \/ Called("RefundPayment")) /\ AbsentID)
       => /\ last.out.err = ErrPaymentNotFound
          /\ ~Is(last.out.err, ErrStorage)
          /\ ~last.out.hasRes
          /\ last.out.gwProcess = 0 /\ last.out.gwRefund = 0
          /\ Writes(last.out) = 0
          /\ payments = last.pre
  /\ (Called("UpdateOrderStatus") /\ AbsentID)
       => /\ last.out.err = ErrOrderNotFound
          /\ ~Is(last.out.err, ErrStorage)
          /\ ~last.out.hasRes
          /\ Writes(last.out) = 0
          /\ orders = last.pre

\* A refund was asked for an identifier the table does not hold, while it
\* holds an approved payment under another
C20_Witness ==
  /\ Called("RefundPayment") /\ AbsentID
  /\ last.out.err = ErrPaymentNotFound
  /\ \E i \in DOMAIN payments : payments[i].status = PaymentStatusApproved

\* The status a call of UpdateOrderStatus or CancelOrder asks for
Target == IF last.op = "CancelOrder" THEN StatusCanceled ELSE last.status

Kept(r) == [r EXCEPT !.status = "", !.updated_at = 0]

\* C25: no call of the order use case changes the id, customer, item list,
\* total (or creation time) of a stored order, a successful UpdateOrderStatus
\* or CancelOrder changing only status and updated-time; and the total of
\* every stored order equals the sum of its items' subtotals.
C25_OnlyStatusAndTimeChange ==
  [][/\ \A i \in DOMAIN orders : i \in DOMAIN orders' /\ Kept(orders'[i]) = Kept(orders[i])
     /\ \A i \in DOMAIN orders' :
          FEq(orders'[i].total_amount, SumSubtotals(orders'[i].order_items))]_vars

IdleOrderTask ==
  [pc |-> "idle", op |-> "none", id |-> "", status |-> "", o |-> ZeroOrder,
   read |-> "", hasRes |-> FALSE, err |-> Nil]

InitConcOrder ==
  /\ payments = EmptyKV
  /\ orders = EmptyKV
  /\ members = NewPostgresMemberRepository
  /\ created = 0
  /\ now = 0
  /\ last = NoCall
  /\ ent = NoEnt
  /\ tasks = [i \in Tasks |-> IdleOrderTask]
  /\ gwCalls = EmptyKV

\* The call returns: what is left of it is what it returned
OrdDone(t, hasRes, err) ==
  SetTask(t, [IdleOrderTask EXCEPT !.pc = "done", !.hasRes = hasRes, !.err = err])

\* An order enters the table (one whole CreateOrder call)
ConcCreateOrder ==
  \E out \in {CreateOrder(orders, OrderUUID(Cardinality(DOMAIN orders) + 1), now + 1,
                          "cust-1", <<OrderItemRequest("prod-1", "book", Fin(50), 2)>>,
                          TRUE)} :
     /\ Cardinality(DOMAIN orders) < MaxOrders
     /\ now + out.ticks <= MaxClock
     /\ \A t \in Tasks : tasks[t].pc = "idle"
     /\ orders' = out.table
     /\ now' = now + out.ticks
     /\ UNCHANGED <<payments, members, created, last, ent, tasks, gwCalls>>

\* UpdateOrderStatus(id, status) or CancelOrder(id) is called
OrdStart(t) ==
  \E id \in OrderIDs, op \in {"UpdateOrderStatus", "CancelOrder"},
     status \in OrderStatuses :
    /\ tasks[t].pc \in {"idle", "done"}
    /\ op = "CancelOrder" => status = StatusCanceled
    /\ SetTask(t, [IdleOrderTask EXCEPT !.pc = "find", !.op = op, !.id = id,
                                        !.status = status])
    /\ UNCHANGED <<payments, orders, members, created, now, last, ent, gwCalls>>

\* uc.repo.FindByID
OrdFind(t) ==
  \E findOK \in BOOLEAN :
    \E f \in {OrderFindByID(orders, tasks[t].id, findOK)} :
      /\ tasks[t].pc = "find"
      /\ IF f.err # Nil THEN OrdDone(t, FALSE, f.err)
         ELSE SetTask(t, [tasks[t] EXCEPT !.pc = "transition", !.o = f.o,
                                          !.read = f.o.status])
      /\ UNCHANGED <<payments, orders, members, created, now, last, ent, gwCalls>>

\* order.UpdateStatus(status), on the copy the task read
OrdTransition(t) ==
  \E updated \in {UpdateStatus(tasks[t].o, now + 1, tasks[t].status)} :
    /\ tasks[t].pc = "transition"
    /\ IF updated.err # Nil
       THEN OrdDone(t, FALSE, updated.err) /\ UNCHANGED now
       ELSE /\ now < MaxClock
            /\ SetTask(t, [tasks[t] EXCEPT !.pc = "update", !.o = updated.o])
            /\ now' = now + 1
    /\ UNCHANGED <<payments, orders, members, created, last, ent, gwCalls>>

\* uc.repo.Update and the return
OrdUpdate(t) ==
  \E updateOK \in BOOLEAN :
    \E u \in {OrderUpdate(orders, tasks[t].o, updateOK)} :
      /\ tasks[t].pc = "update"
      /\ orders' = u.table
      /\ IF u.err # Nil THEN OrdDone(t, FALSE, u.err) ELSE OrdDone(t, TRUE, Nil)
      /\ UNCHANGED <<payments, members, created, now, last, ent, gwCalls>>

NextConcOrder ==
  \/ ConcCreateOrder
  \/ \E t \in Tasks : OrdStart(t) \/ OrdFind(t) \/ OrdTransition(t) \/ OrdUpdate(t)

SpecConcOrder == InitConcOrder /\ [][NextConcOrder]_vars

IdleCreateTask ==
  [pc |-> "idle", orderID |-> "", amount |-> 0, p |-> ZeroPayment, hasRes |-> FALSE,
   err |-> Nil]

InitConcCreate ==
  /\ payments = EmptyKV
  /\ orders = EmptyKV
  /\ members = NewPostgresMemberRepository
  /\ created = 0
  /\ now = 0
  /\ last = NoCall
  /\ ent = NoEnt
  /\ tasks = [i \in Tasks |-> IdleCreateTask]
  /\ gwCalls = EmptyKV

CreDone(t, hasRes, err) ==
  SetTask(t, [tasks[t] EXCEPT !.pc = "done", !.hasRes = hasRes, !.err = err])

\* CreatePayment(orderID, amount, method, paymentData) is called
CreStart(t) ==
  \E orderID \in OrderRefs, amount \in Amounts :
    /\ tasks[t].pc = "idle"
    /\ SetTask(t, [tasks[t] EXCEPT !.pc = "find", !.orderID = orderID,
                                   !.amount = amount])
    /\ UNCHANGED <<payments, orders, members, created, now, last, ent, gwCalls>>

\* uc.repo.FindByOrderID and the check of what it returned
CreFind(t) ==
  \E findOK \in BOOLEAN :
    \E existing \in {FindByOrderID(payments, tasks[t].orderID, findOK)} :
      /\ tasks[t].pc = "find"
      /\ IF existing.err # Nil /\ ~Is(existing.err, ErrPaymentNotFound)
         THEN CreDone(t, FALSE, Wrap("failed to check existing payment", existing.err))
         ELSE IF HasExisting(existing) THEN CreDone(t, FALSE, ErrPaymentAlreadyExists)
         ELSE SetTask(t, [tasks[t] EXCEPT !.pc = "new"])
      /\ UNCHANGED <<payments, orders, members, created, now, last, ent, gwCalls>>

\* domain.NewPayment
CreNew(t) ==
  \E np \in {NewPayment(PaymentUUID(created + 1), now + 1, tasks[t].orderID,
                        tasks[t].amount, PaymentMethodCreditCard, NilMap)} :
    /\ tasks[t].pc = "new"
    /\ IF np.err # Nil
       THEN CreDone(t, FALSE, np.err) /\ UNCHANGED <<created, now>>
       ELSE /\ created < MaxPayments /\ now < MaxClock
            /\ SetTask(t, [tasks[t] EXCEPT !.pc = "save", !.p = np.p])
            /\ created' = created + 1
            /\ now' = now + 1
    /\ UNCHANGED <<payments, orders, members, last, ent, gwCalls>>

\* uc.repo.Save and the return
CreSave(t) ==
  \E saveOK \in BOOLEAN :
    \E sv \in {Save(payments, tasks[t].p, saveOK)} :
      /\ tasks[t].pc = "save"
      /\ payments' = sv.table
      /\ IF sv.err # Nil THEN CreDone(t, FALSE, Wrap("failed to save payment", sv.err))
         ELSE CreDone(t, TRUE, Nil)
      /\ UNCHANGED <<orders, members, created, now, last, ent, gwCalls>>

NextConcCreate == \E t \in Tasks : CreStart(t) \/ CreFind(t) \/ CreNew(t) \/ CreSave(t)

SpecConcCreate == InitConcCreate /\ [][NextConcCreate]_vars

\* C28: in every interleaving of concurrent CreatePayment calls for the same
\* order reference, each a lookup followed by a Save, the table holds at most
\* one payment for that order and at most one of the calls succeeds.
C28_OnePaymentPerOrder ==
  \A orderID \in OrderRefs :
    /\ Cardinality({i \in DOMAIN payments : payments[i].order_id = orderID}) <= 1
    /\ Cardinality({t \in Tasks : /\ tasks[t].pc = "done" /\ tasks[t].hasRes
                                  /\ tasks[t].orderID = orderID}) <= 1

\* ------------------------- concurrent ProcessPayment and RefundPayment
\* The tasks run ProcessPayment calls, as above, and RefundPayment calls as
\* the sequence FindByID, the gateway's refund with the entity's Refund,
\* Update; a task whose call has returned may make another call.
RefundKey(id) == "refund " \o id
RefundSuccesses(id) == IF RefundKey(id) \in DOMAIN gwCalls THEN gwCalls[RefundKey(id)] ELSE 0

RECURSIVE SumCalls(_, _)
SumCalls(calls, keys) ==
  IF keys = {} THEN 0
  ELSE LET k == CHOOSE x \in keys : TRUE IN calls[k] + SumCalls(calls, keys \ {k})

\* Gateway calls made so far: ProcessPayment calls and successful refunds
GatewayTotal == SumCalls(gwCalls, DOMAIN gwCalls)

\* The payment the calls are about enters the table (one whole CreatePayment
\* call that goes through)
ConcPlacePayment ==
  \E out \in {CreatePayment(payments, PaymentUUID(created + 1), now + 1, "order-1", 100,
                            PaymentMethodCreditCard, MakeMap("card" :> "visa"),
                            TRUE, TRUE)} :
     /\ payments = EmptyKV
     /\ \A t \in Tasks : tasks[t].pc = "idle"
     /\ payments' = out.table
     /\ now' = now + out.ticks
     /\ created' = created + out.ticks
     /\ UNCHANGED <<orders, members, last, ent, tasks, gwCalls>>

\* RefundPayment is called: the check of the identifier
RefStart(t) ==
  \E id \in PaymentRefs :
    /\ tasks[t].pc = "idle"
    /\ IF id = ""
       THEN Done(t, FALSE, ZeroPayment, ErrInvalidPaymentID, FALSE)
       ELSE SetTask(t, [tasks[t] EXCEPT !.pc = "refund find", !.op = "RefundPayment",
                                        !.id = id])
    /\ UNCHANGED <<payments, orders, members, created, now, last, ent, gwCalls>>

\* uc.repo.FindByID
RefFind(t) ==
  \E findOK \in BOOLEAN :
    \E f \in {FindByID(payments, tasks[t].id, findOK)} :
      /\ tasks[t].pc = "refund find"
      /\ IF f.err # Nil THEN Done(t, FALSE, ZeroPayment, f.err, FALSE)
         ELSE SetTask(t, [tasks[t] EXCEPT !.pc = "refund gateway", !.p = f.p])
      /\ UNCHANGED <<payments, orders, members, created, now, last, ent, gwCalls>>

\* uc.gateway.RefundPayment and the entity's Refund
RefGateway(t) ==
  \E gw \in RefundOutcomes :
    \E refunded \in {Refund(tasks[t].p, now + 1, "customer request")} :
      /\ tasks[t].pc = "refund gateway"
      /\ IF RefundRefused(gw)
         THEN /\ Done(t, FALSE, ZeroPayment, Wrap("refund processing failed", gw.err), FALSE)
              /\ UNCHANGED <<now, gwCalls>>
         ELSE /\ gwCalls' = (RefundKey(tasks[t].id) :> RefundSuccesses(tasks[t].id) + 1)
                               @@ gwCalls
              /\ IF refunded.err # Nil
                 THEN Done(t, FALSE, ZeroPayment, refunded.err, FALSE) /\ UNCHANGED now
                 ELSE IF refunded.panicked
                 THEN Done(t, FALSE, ZeroPayment, Nil, TRUE) /\ UNCHANGED now
                 ELSE /\ now < MaxClock
                      /\ SetTask(t, [tasks[t] EXCEPT !.pc = "refund update",
                                                      !.p = refunded.p])
                      /\ now' = now + 1
      /\ UNCHANGED <<payments, orders, members, created, last, ent>>

\* uc.repo.Update and the return
RefUpdate(t) ==
  \E updateOK \in BOOLEAN :
    \E u \in {Update(payments, tasks[t].p, updateOK)} :
      /\ tasks[t].pc = "refund update"
      /\ payments' = u.table
      /\ IF WriteFailed(u)
         THEN Done(t, FALSE, ZeroPayment,
                   Wrap("failed to update payment status after refund", u.err), FALSE)
         ELSE Done(t, TRUE, tasks[t].p, Nil, FALSE)
      /\ UNCHANGED <<orders, members, created, now, last, ent, gwCalls>>

\* The call has returned; the task is free for the next request
TaskReturn(t) ==
  /\ tasks[t].pc = "done"
  /\ GatewayTotal < MaxGatewayCalls
  /\ SetTask(t, IdleTask)
  /\ UNCHANGED <<payments, orders, members, created, now, last, ent, gwCalls>>

NextConcRefund ==
  \/ ConcPlacePayment
  \/ \E t \in Tasks : \/ ProcStart(t) \/ ProcFind(t) \/ ProcGateway(t) \/ ProcUpdate(t)
                       \/ RefStart(t) \/ RefFind(t) \/ RefGateway(t) \/ RefUpdate(t)
                       \/ TaskReturn(t)

SpecConcRefund == Init /\ [][NextConcRefund]_vars

PaymentTransitions ==
  {<<PaymentStatusPending, PaymentStatusApproved>>,
   <<PaymentStatusPending, PaymentStatusRejected>>,
   <<PaymentStatusApproved, PaymentStatusRefunded>>}

\* C29: in every interleaving of concurrent ProcessPayment and RefundPayment
\* calls on the same payment the stored status changes only along pending ->
\* approved, pending -> rejected and approved -> refunded, and the gateway's
\* RefundPayment succeeds at most once for the payment.
C29_ConcurrentPaymentFollowsMachine ==
  [][/\ \A i \in DOMAIN payments :
          payments'[i].status # payments[i].status
            => <<payments[i].status, payments'[i].status>> \in PaymentTransitions
     /\ \A id \in PaymentRefs : RefundSuccesses(id)' <= 1]_vars

\* --------------------------------------------------- the member use case
NoMemberCall ==
  [op |-> "none", id |-> "", email |-> "", name |-> "", password |-> <<>>, t |-> 0,
   findOK |-> TRUE, writeOK |-> TRUE, pre |-> NewPostgresMemberRepository,
   out |-> Outcome(NewPostgresMemberRepository, FALSE, ZeroMember, Nil, FALSE,
                   0, 0, 0, 0, 0, 0)]

\* The service builds the use case on the PostgreSQL repository, the tests on
\* the fake one.
InitMember ==
  /\ payments = EmptyKV
  /\ orders = EmptyKV
  /\ members \in {NewPostgresMemberRepository, NewFakeMemberRepository}
  /\ created = 0
  /\ now = 0
  /\ last = NoMemberCall
  /\ ent = NoEnt
  /\ tasks = [i \in Tasks |-> IdleTask]
  /\ gwCalls = EmptyKV

\* The fake repository never fails
MemberEnv(findOK, writeOK) == members.repo = "fake" => findOK /\ writeOK

FinishMember(call, out) ==
  /\ now + out.ticks <= MaxClock
  /\ call.op = "CreateMember" /\ out.saves = 1 => created < MaxMembers
  /\ members' = out.table
  /\ now' = now + out.ticks
  /\ created' = IF call.op = "CreateMember" /\ out.saves = 1 THEN created + 1 ELSE created
  /\ last' = [call EXCEPT !.t = now + 1, !.pre = members, !.out = out]
  /\ UNCHANGED <<payments, orders, ent, tasks, gwCalls>>

DoCreateMember ==
  \E email \in Emails, name \in Names, password \in Passwords, findOK, writeOK \in BOOLEAN :
    \E out \in {CreateMember(members, MemberUUID(created + 1), now + 1, email, name,
                              password, findOK, writeOK)} :
      /\ MemberEnv(findOK, writeOK)
      /\ Relevant(out, findOK, writeOK, TRUE)
      /\ FinishMember([NoMemberCall EXCEPT !.op = "CreateMember", !.email = email,
                         !.name = name, !.password = password, !.findOK = findOK,
                         !.writeOK = writeOK], out)

DoUpdateMember ==
  \E id \in MemberIDs, name \in Names, findOK, writeOK \in BOOLEAN :
    \E out \in {UpdateMember(members, now + 1, id, name, findOK, writeOK)} :
      /\ MemberEnv(findOK, writeOK)
      /\ Relevant(out, findOK, writeOK, TRUE)
      /\ FinishMember([NoMemberCall EXCEPT !.op = "UpdateMember", !.id = id,
                         !.name = name, !.findOK = findOK, !.writeOK = writeOK], out)

DoDeleteMember ==
  \E id \in MemberIDs, writeOK \in BOOLEAN :
    \E out \in {DeleteMember(members, id, writeOK)} :
      /\ MemberEnv(TRUE, writeOK)
      /\ FinishMember([NoMemberCall EXCEPT !.op = "DeleteMember", !.id = id,
                         !.writeOK = writeOK], out)

NextMember == DoCreateMember \/ DoUpdateMember \/ DoDeleteMember

SpecMember == InitMember /\ [][NextMember]_vars

\* ------------------------------------------------- properties: members
MemberCall(op) == last.op = op

\* C21: CreateMember with an email that already belongs to a stored member
\* fails with ErrMemberAlreadyExists and stores nothing, and no two stored
\* members share an email, whatever sequence of CreateMember, UpdateMember
\* and DeleteMember calls came before.
C21_EmailsAreUnique ==
  /\ \A i, j \in DOMAIN members.members :
       members.members[i].email = members.members[j].email => i = j
  /\ (MemberCall("CreateMember") /\ last.findOK
       /\ \E i \in DOMAIN last.pre.members : last.pre.members[i].email = last.email)
     => /\ last.out.err = ErrMemberAlreadyExists
        /\ ~last.out.hasRes
        /\ last.out.saves = 0
        /\ members = last.pre

\* A duplicate was refused while another member was stored next to it
C21_Witness ==
  /\ MemberCall("CreateMember")
  /\ last.out.err = ErrMemberAlreadyExists
  /\ Cardinality(DOMAIN members.members) = 2

\* C22: on an empty member store CreateMember (lookup and Save succeeding)
\* succeeds iff the email is not empty, the name is not empty and the
\* password has at least 8 characters; on success the returned and the stored
\* member carry exactly the given email and name and a non-empty id; on
\* failure no member is stored.
C22_CreateMemberValidates ==
  (MemberCall("CreateMember") /\ last.pre.members = EmptyKV
   /\ last.findOK /\ last.writeOK) =>
    /\ (last.out.err = Nil) <=>
         (last.email # "" /\ last.name # "" /\ Len(last.password) >= 8)
    /\ last.out.err = Nil =>
         /\ last.out.hasRes
         /\ last.out.res.email = last.email /\ last.out.res.name = last.name
         /\ last.out.res.id # ""
         /\ DOMAIN members.members = {last.out.res.id}
         /\ members.members[last.out.res.id] = last.out.res
    /\ last.out.err # Nil => (~last.out.hasRes /\ members.members = EmptyKV)

====
